---- MODULE Spec2Model ----
(***************************************************************************)
(* A model of the sray kernel: the canvas (src/src/canvas.rs), the color   *)
(* type (src/src/color.rs), the scalar comparison (src/src/misc.rs) and    *)
(* the point / vector algebra (src/src/math.rs).                           *)
(*                                                                         *)
(* f64 is modelled as a small binary fixed-point format that keeps the     *)
(* IEEE-754 special values: a float is <<"fin", n>> (the real n/4, n an    *)
(* integer with |n| <= MaxFin), <<"inf", 1>>, <<"inf", -1>> or             *)
(* <<"nan", 0>>.  Results beyond MaxFin overflow to an infinity, inexact   *)
(* results round to the nearest representable value, and the special       *)
(* values combine as IEEE-754 says.  The sign of zero is not modelled: no  *)
(* operation of the crate divides by a computed zero other than mag(),     *)
(* which is never negative.                                                *)
(*                                                                         *)
(* usize is modelled as an unsigned integer of UsizeBits bits.  Rust       *)
(* panics on arithmetic overflow in a build with overflow checks (debug)   *)
(* and wraps in a build without (release); `build` is chosen at Init.      *)
(***************************************************************************)
EXTENDS Integers, Sequences, FiniteSets, TLC

VARIABLES
    build,      \* "debug" (overflow checks) or "release" (wrapping)
    pc,         \* canvas side: "start", "live" or "panic"
    width,      \* Canvas.width
    height,     \* Canvas.height
    canvas,     \* Canvas.canvas, the Vec<Color>; cell i of the Vec is canvas[i+1]
    call,       \* the last call made on the canvas and its arguments
    ret,        \* what that call returned
    pt,         \* math side: a Point3 value
    vu,         \* math side: a Vector3 value
    vv,         \* math side: a second Vector3 value
    out,        \* math side: the last operation, its operands and its result
    steps       \* math side: number of operations applied so far

vars == <<build, pc, width, height, canvas, call, ret, pt, vu, vv, out, steps>>
canvasVars == <<build, pc, width, height, canvas, call, ret>>
mathVars == <<pt, vu, vv, out, steps>>

----------------------------------------------------------------------------
(* Bounds *)

\* Largest finite magnitude of the modelled float, in quarters.
MaxFin == 4000
\* Largest width and height given to Canvas::new.
MaxDim == 3
\* Largest number of operations in a run of the point / vector algebra.
MaxSteps == 2

Dims == 0 .. MaxDim
Coords == 0 .. MaxDim

----------------------------------------------------------------------------
(* f64 *)

NaN == <<"nan", 0>>
PInf == <<"inf", 1>>
NInf == <<"inf", -1>>
Quarters(n) == <<"fin", n>>
Whole(n) == <<"fin", 4 * n>>

IsNaN(a) == a[1] = "nan"
IsInf(a) == a[1] = "inf"
IsFin(a) == a[1] = "fin"
Sign(a) == IF a[2] > 0 THEN 1 ELSE IF a[2] < 0 THEN -1 ELSE 0
Abs(n) == IF n < 0 THEN -n ELSE n
SignedInf(s) == IF s > 0 THEN PInf ELSE NInf

\* The float nearest to the real n/4: an infinity beyond the finite range.
Overflow(n) ==
    IF n > MaxFin THEN PInf
    ELSE IF n < -MaxFin THEN NInf
    ELSE Quarters(n)

\* n / d rounded to the nearest integer, ties away from zero; d > 0.
RoundDiv(n, d) ==
    IF n >= 0 THEN (2 * n + d) \div (2 * d)
    ELSE -((2 * (-n) + d) \div (2 * d))

FNeg(a) ==
    IF IsNaN(a) THEN NaN
    ELSE IF IsInf(a) THEN SignedInf(-a[2])
    ELSE Quarters(-a[2])

FAdd(a, b) ==
    IF IsNaN(a) \/ IsNaN(b) THEN NaN
    ELSE IF IsInf(a) /\ IsInf(b) THEN (IF a[2] = b[2] THEN a ELSE NaN)
    ELSE IF IsInf(a) THEN a
    ELSE IF IsInf(b) THEN b
    ELSE Overflow(a[2] + b[2])

FSub(a, b) == FAdd(a, FNeg(b))

FMul(a, b) ==
    IF IsNaN(a) \/ IsNaN(b) THEN NaN
    ELSE IF IsInf(a) \/ IsInf(b)
         THEN (IF Sign(a) = 0 \/ Sign(b) = 0 THEN NaN ELSE SignedInf(Sign(a) * Sign(b)))
    ELSE Overflow(RoundDiv(a[2] * b[2], 4))

FDiv(a, b) ==
    IF IsNaN(a) \/ IsNaN(b) THEN NaN
    ELSE IF IsInf(a) /\ IsInf(b) THEN NaN
    ELSE IF IsInf(a) THEN (IF Sign(b) < 0 THEN SignedInf(-a[2]) ELSE a)
    ELSE IF IsInf(b) THEN Quarters(0)
    ELSE IF b[2] = 0 THEN (IF a[2] = 0 THEN NaN ELSE SignedInf(a[2]))
    ELSE Overflow(Sign(b) * RoundDiv(4 * a[2], Abs(b[2])))

\* The integer nearest to the square root of n >= 0.
RECURSIVE ISqrtFrom(_, _)
ISqrtFrom(n, s) ==
    IF (2 * s + 1) * (2 * s + 1) > 4 * n THEN s ELSE ISqrtFrom(n, s + 1)

FSqrt(a) ==
    IF IsNaN(a) THEN NaN
    ELSE IF IsInf(a) THEN (IF a[2] > 0 THEN PInf ELSE NaN)
    ELSE IF a[2] < 0 THEN NaN
    ELSE Quarters(ISqrtFrom(4 * a[2], 0))

FAbs(a) ==
    IF IsNaN(a) THEN NaN
    ELSE IF IsInf(a) THEN PInf
    ELSE Quarters(Abs(a[2]))

\* f64::ceil: the least whole number not below a.
FCeil(a) ==
    IF IsFin(a) THEN Quarters(4 * (-((-a[2]) \div 4))) ELSE a

\* a < b on finite reals given in quarters; any comparison with NaN is false.
FLess(a, b) ==
    IF IsNaN(a) \/ IsNaN(b) THEN FALSE
    ELSE IF IsInf(a) THEN (a[2] < 0 /\ ~(IsInf(b) /\ b[2] < 0))
    ELSE IF IsInf(b) THEN b[2] > 0
    ELSE a[2] < b[2]

\* u32::MAX is 4294967295, beyond the integers of TLC; the largest of those
\* stands for it.  Every finite float of the model is far below both.
U32_MAX == 2147483647

\* `x as u32` on an f64: truncates toward zero and saturates; NaN becomes 0.
AsU32(a) ==
    IF IsNaN(a) THEN 0
    ELSE IF IsInf(a) THEN (IF a[2] > 0 THEN U32_MAX ELSE 0)
    ELSE IF a[2] < 0 THEN 0
    ELSE a[2] \div 4

\* Ord::clamp
Clamp(n, lo, hi) == IF n < lo THEN lo ELSE IF n > hi THEN hi ELSE n

\* misc::equal: (lhs - rhs).abs() < EPSILON with EPSILON = 1e-10.  A finite
\* difference is a multiple of 1/4, so it is below 1e-10 exactly when it is 0.
equal(lhs, rhs) ==
    LET d == FAbs(FSub(lhs, rhs))
    IN  IsFin(d) /\ d[2] = 0

----------------------------------------------------------------------------
(* Color *)

Color(r, g, b) == [r |-> r, g |-> g, b |-> b]

BLACK == Color(Whole(0), Whole(0), Whole(0))
AZURE == Color(Whole(0), Quarters(2), Whole(1))

\* The colors given to write_pixel.
Palette == {BLACK, AZURE}

ColorEq(a, b) == equal(a.r, b.r) /\ equal(a.g, b.g) /\ equal(a.b, b.b)

----------------------------------------------------------------------------
(* Tuple4, Point3, Vector3 *)

Tuple4(x, y, z, w) == [x |-> x, y |-> y, z |-> z, w |-> w]

Tuple4Add(a, b) ==
    Tuple4(FAdd(a.x, b.x), FAdd(a.y, b.y), FAdd(a.z, b.z), FAdd(a.w, b.w))
\* A subtraction that leaves w as it is in the left operand.
Tuple4SubKeepW(a, b) ==
    Tuple4(FSub(a.x, b.x), FSub(a.y, b.y), FSub(a.z, b.z), a.w)
Tuple4Sub(a, b) ==
    Tuple4(FSub(a.x, b.x), FSub(a.y, b.y), FSub(a.z, b.z), FSub(a.w, b.w))
Tuple4Neg(a) == Tuple4(FNeg(a.x), FNeg(a.y), FNeg(a.z), FNeg(a.w))
Tuple4Mul(a, s) == Tuple4(FMul(a.x, s), FMul(a.y, s), FMul(a.z, s), FMul(a.w, s))
Tuple4Div(a, s) == Tuple4(FDiv(a.x, s), FDiv(a.y, s), FDiv(a.z, s), FDiv(a.w, s))
Tuple4Eq(a, b) ==
    equal(a.x, b.x) /\ equal(a.y, b.y) /\ equal(a.z, b.z) /\ equal(a.w, b.w)

\* Point3::new and Vector3::new
Point3New(x, y, z) == Tuple4(x, y, z, Whole(1))
Vector3New(x, y, z) == Tuple4(x, y, z, Whole(0))

\* Point3 - Vector3 with the operands the wrong way round.
Point3SubVector3Swapped(p, v) == Tuple4Sub(v, p)

\* Point3 + Vector3, Point3 - Point3, Point3 - Vector3
Point3AddVector3(p, v) == Tuple4Add(p, v)
Point3SubPoint3(p, q) == Tuple4Sub(p, q)
Point3SubVector3(p, v) == Tuple4Sub(p, v)

\* A mag() that leaves out the square root.
magSquared(v) ==
    FAdd(FAdd(FAdd(FMul(v.x, v.x), FMul(v.y, v.y)), FMul(v.z, v.z)),
         FMul(v.w, v.w))

\* Vector3::mag; powi(2) is the product of the value with itself
mag(v) ==
    FSqrt(FAdd(FAdd(FAdd(FMul(v.x, v.x), FMul(v.y, v.y)), FMul(v.z, v.z)),
               FMul(v.w, v.w)))

\* Vector3::norm
norm(v) ==
    LET mv == mag(v)
    IN  Tuple4(FDiv(v.x, mv), FDiv(v.y, mv), FDiv(v.z, mv), FDiv(v.w, mv))

\* Vector3::dot
dot(a, b) ==
    FAdd(FAdd(FAdd(FMul(a.x, b.x), FMul(a.y, b.y)), FMul(a.z, b.z)),
         FMul(a.w, b.w))

\* A cross product whose last component adds its two products.
crossSum(a, b) ==
    Vector3New(FSub(FMul(a.y, b.z), FMul(a.z, b.y)),
               FSub(FMul(a.z, b.x), FMul(a.x, b.z)),
               FAdd(FMul(a.x, b.y), FMul(a.y, b.x)))

\* Vector3::cross
cross(a, b) ==
    Vector3New(FSub(FMul(a.y, b.z), FMul(a.z, b.y)),
               FSub(FMul(a.z, b.x), FMul(a.x, b.z)),
               FSub(FMul(a.x, b.y), FMul(a.y, b.x)))

\* Vector3 + Vector3, Vector3 - Vector3, -Vector3, Vector3 * f64, Vector3 / f64
Vector3Add(a, b) == Tuple4Add(a, b)
Vector3Sub(a, b) == Tuple4Sub(a, b)
Vector3Neg(a) == Tuple4Neg(a)
Vector3Mul(a, s) == Tuple4Mul(a, s)
Vector3Div(a, s) == Tuple4Div(a, s)

\* The coordinate triples given to the constructors: zero, whole values, a
\* value whose square rounds to zero, values whose products overflow, and
\* an infinity with a NaN.
Big == Whole(40)
InputTriples ==
    { <<Whole(0), Whole(0), Whole(0)>>,
      <<Whole(1), Whole(2), Whole(3)>>,
      <<Whole(2), Whole(3), Whole(4)>>,
      <<Quarters(1), Whole(0), Whole(0)>>,
      <<Big, Whole(0), FNeg(Big)>>,
      <<PInf, Whole(1), NaN>> }
InputPoints == {Point3New(t[1], t[2], t[3]) : t \in InputTriples}
InputVectors == {Vector3New(t[1], t[2], t[3]) : t \in InputTriples}
\* The scalars given to Vector3 * f64 and Vector3 / f64.
InputScalars == {Whole(0), Whole(2), PInf, NaN}

NoOut == [op |-> "none"]
Out1(op, a, val) == [op |-> op, a |-> a, val |-> val]
Out2(op, a, b, val) == [op |-> op, a |-> a, b |-> b, val |-> val]

\* One operation of the algebra: pt' , vu' and out' as given.
MathStep(p, u, o) ==
    /\ steps < MaxSteps
    /\ steps' = steps + 1
    /\ pt' = p
    /\ vu' = u
    /\ vv' = vv
    /\ out' = o
    /\ UNCHANGED canvasVars

PointAddVector == MathStep(Point3AddVector3(pt, vu), vu,
                           Out2("point_add_vector", pt, vu, Point3AddVector3(pt, vu)))
PointSubVector == MathStep(Point3SubVector3(pt, vu), vu,
                           Out2("point_sub_vector", pt, vu, Point3SubVector3(pt, vu)))
PointSubPoint(q) == MathStep(pt, Point3SubPoint3(pt, q),
                             Out2("point_sub_point", pt, q, Point3SubPoint3(pt, q)))
VectorAdd == MathStep(pt, Vector3Add(vu, vv), Out2("add", vu, vv, Vector3Add(vu, vv)))
VectorSub == MathStep(pt, Vector3Sub(vu, vv), Out2("sub", vu, vv, Vector3Sub(vu, vv)))
VectorNeg == MathStep(pt, Vector3Neg(vu), Out1("neg", vu, Vector3Neg(vu)))
VectorMul(s) == MathStep(pt, Vector3Mul(vu, s), Out2("mul", vu, s, Vector3Mul(vu, s)))
VectorDiv(s) == MathStep(pt, Vector3Div(vu, s), Out2("div", vu, s, Vector3Div(vu, s)))
VectorNorm == MathStep(pt, norm(vu), Out1("norm", vu, norm(vu)))
VectorCross == MathStep(pt, cross(vu, vv), Out2("cross", vu, vv, cross(vu, vv)))
VectorMag == MathStep(pt, vu, Out1("mag", vu, mag(vu)))
VectorDot == MathStep(pt, vu, Out2("dot", vu, vv, dot(vu, vv)))

\* The canvas side while the algebra runs, and the algebra while the canvas runs.
CanvasIdle ==
    /\ build = "release"
    /\ pc = "start"
    /\ width = 0
    /\ height = 0
    /\ canvas = <<>>
    /\ call = [op |-> "none", x |-> 0, y |-> 0]
    /\ ret = [tag |-> "Unit"]
MathIdle ==
    /\ pt = Point3New(Whole(0), Whole(0), Whole(0))
    /\ vu = Vector3New(Whole(0), Whole(0), Whole(0))
    /\ vv = Vector3New(Whole(0), Whole(0), Whole(0))
    /\ out = NoOut
    /\ steps = 0

InitMath ==
    /\ pt \in InputPoints
    /\ vu \in InputVectors
    /\ vv \in InputVectors
    /\ out = NoOut
    /\ steps = 0
    /\ CanvasIdle

NextMath ==
    \/ PointAddVector
    \/ PointSubVector
    \/ \E q \in InputPoints : PointSubPoint(q)
    \/ VectorAdd
    \/ VectorSub
    \/ VectorNeg
    \/ \E s \in InputScalars : VectorMul(s)
    \/ \E s \in InputScalars : VectorDiv(s)
    \/ VectorNorm
    \/ VectorCross
    \/ VectorMag
    \/ VectorDot

SpecMath == InitMath /\ [][NextMath]_vars

----------------------------------------------------------------------------
(* usize arithmetic *)

\* usize: an unsigned integer of UsizeBits bits (64 on the usual target, 3
\* here, so that a product of two small dimensions can exceed it).
UsizeBits == 3
USIZE == 2 ^ UsizeBits

\* a * b and a + b on usize: the wrapped value, and whether it overflowed.
UMul(a, b) == [val |-> (a * b) % USIZE, overflow |-> a * b >= USIZE]
UAdd(a, b) == [val |-> (a + b) % USIZE, overflow |-> a + b >= USIZE]

\* An overflow panics where the build checks for it.
OverflowPanics(r) == build = "debug" /\ r.overflow

----------------------------------------------------------------------------
(* Canvas *)

None == [tag |-> "None"]
Some(c) == [tag |-> "Some", val |-> c]
Unit == [tag |-> "Unit"]
Panic(msg) == [tag |-> "Panic", msg |-> msg]

NoCall == [op |-> "none", x |-> 0, y |-> 0]
Call(op, x, y) == [op |-> op, x |-> x, y |-> y]
CallWrite(x, y, color) == [op |-> "write_pixel", x |-> x, y |-> y, color |-> color]

\* vec![Color::BLACK; n]
VecOf(c, n) == [i \in 1 .. n |-> c]

\* A guard that checks the flat index against the buffer instead of each
\* coordinate against its own limit.
InBoundsFlat(x, y) == x + y * width < Len(canvas)

\* The guard of pixel_at and write_pixel.
InBounds(x, y) == x < width /\ y < height

\* x + y * self.width as the code evaluates it: the product, then the sum.
IndexProduct(y) == UMul(y, width)
IndexSum(x, y) == UAdd(x, IndexProduct(y).val)
IndexOverflowPanics(x, y) ==
    OverflowPanics(IndexProduct(y)) \/ OverflowPanics(IndexSum(x, y))
Index(x, y) == IndexSum(x, y).val

\* self.canvas[i] panics when i is not below the length of the Vec.
IndexPanics(x, y) == IndexOverflowPanics(x, y) \/ Index(x, y) >= Len(canvas)

\* What Canvas::new(w, h) does: a panic, or the fields of the new canvas.
NewRet(w, h) ==
    IF OverflowPanics(UMul(w, h))
    THEN Panic("attempt to multiply with overflow")
    ELSE [tag |-> "Canvas", canvas |-> VecOf(BLACK, UMul(w, h).val),
          width |-> w, height |-> h]

\* Canvas::new
New(w, h) ==
    /\ pc = "start"
    /\ call' = Call("new", w, h)
    /\ IF NewRet(w, h).tag = "Panic"
       THEN /\ pc' = "panic"
            /\ ret' = NewRet(w, h)
            /\ UNCHANGED <<width, height, canvas>>
       ELSE /\ pc' = "live"
            /\ canvas' = NewRet(w, h).canvas
            /\ width' = NewRet(w, h).width
            /\ height' = NewRet(w, h).height
            /\ ret' = Unit
    /\ UNCHANGED build
    /\ UNCHANGED mathVars

\* Canvas::width
Width ==
    /\ pc = "live"
    /\ call' = Call("width", 0, 0)
    /\ ret' = [tag |-> "usize", val |-> width]
    /\ UNCHANGED <<build, pc, width, height, canvas>>
    /\ UNCHANGED mathVars

\* Canvas::height
Height ==
    /\ pc = "live"
    /\ call' = Call("height", 0, 0)
    /\ ret' = [tag |-> "usize", val |-> height]
    /\ UNCHANGED <<build, pc, width, height, canvas>>
    /\ UNCHANGED mathVars

\* What pixel_at(x, y) returns on the canvas as it is, or the panic it ends in.
PixelAtRet(x, y) ==
    IF InBounds(x, y)
    THEN IF IndexPanics(x, y)
         THEN Panic("index out of bounds")
         ELSE Some(canvas[Index(x, y) + 1])
    ELSE None

\* Canvas::pixel_at
PixelAt(x, y) ==
    /\ pc = "live"
    /\ call' = Call("pixel_at", x, y)
    /\ ret' = PixelAtRet(x, y)
    /\ pc' = IF PixelAtRet(x, y).tag = "Panic" THEN "panic" ELSE pc
    /\ UNCHANGED <<build, width, height, canvas>>
    /\ UNCHANGED mathVars

\* Canvas::write_pixel
WritePixel(x, y, color) ==
    /\ pc = "live"
    /\ call' = CallWrite(x, y, color)
    /\ IF InBounds(x, y)
       THEN IF IndexPanics(x, y)
            THEN /\ pc' = "panic"
                 /\ ret' = Panic("index out of bounds")
                 /\ canvas' = canvas
            ELSE /\ pc' = pc
                 /\ ret' = Unit
                 /\ canvas' = [canvas EXCEPT ![Index(x, y) + 1] = color]
       ELSE /\ pc' = pc
            /\ ret' = Unit
            /\ canvas' = canvas
    /\ UNCHANGED <<build, width, height>>
    /\ UNCHANGED mathVars

\* Display of an unsigned integer: its decimal digits, most significant first.
DigitChar(d) == <<"0", "1", "2", "3", "4", "5", "6", "7", "8", "9">>[d + 1]
RECURSIVE Decimal(_)
Decimal(n) ==
    IF n < 10 THEN <<DigitChar(n)>> ELSE Decimal(n \div 10) \o <<DigitChar(n % 10)>>

\* const SCALE: f64 = 255.0
SCALE == Whole(255)

\* The conversion without the ceiling: the cast truncates.
ChannelTruncated(c) == Clamp(AsU32(FMul(c, SCALE)), 0, 255)

\* ((c * SCALE).ceil() as u32).clamp(0, 255)
Channel(c) == Clamp(AsU32(FCeil(FMul(c, SCALE))), 0, 255)

\* format!("{} {} {}", r, g, b) of the three channels of a color
Triplet(color) ==
    Decimal(Channel(color.r)) \o <<" ">> \o
    Decimal(Channel(color.g)) \o <<" ">> \o
    Decimal(Channel(color.b))

\* format!("P3\n{} {}\n{}", self.width, self.height, SCALE as u32)
Header(w, h) ==
    <<"P", "3", "\n">> \o Decimal(w) \o <<" ">> \o Decimal(h) \o <<"\n">>
    \o Decimal(AsU32(SCALE))

\* A line break every sixth pixel instead of every fifth.
SeparatorEverySixth(i) == IF i % 6 = 0 THEN <<"\n">> ELSE <<" ">>

\* What one turn of the loop appends for cell i (from 0) of the Vec.
Separator(i) == IF i % 5 = 0 THEN <<"\n">> ELSE <<" ">>

\* The loop over self.canvas.iter().enumerate(), from cell i on.
RECURSIVE Body(_, _)
Body(cells, i) ==
    IF i >= Len(cells) THEN <<>>
    ELSE Separator(i) \o Triplet(cells[i + 1]) \o Body(cells, i + 1)

\* The String to_ppm returns.
PpmOf(cells, w, h) == Header(w, h) \o Body(cells, 0) \o <<"\n">>

\* A to_ppm that takes the cells out of the buffer as it writes them.
ToPpmDraining ==
    /\ pc = "live"
    /\ call' = Call("to_ppm", 0, 0)
    /\ ret' = [tag |-> "String", val |-> PpmOf(canvas, width, height)]
    /\ canvas' = <<>>
    /\ UNCHANGED <<build, pc, width, height>>
    /\ UNCHANGED mathVars

\* Canvas::to_ppm
ToPpm ==
    /\ pc = "live"
    /\ call' = Call("to_ppm", 0, 0)
    /\ ret' = [tag |-> "String", val |-> PpmOf(canvas, width, height)]
    /\ UNCHANGED <<build, pc, width, height, canvas>>
    /\ UNCHANGED mathVars

----------------------------------------------------------------------------
(* The canvas as a state machine *)


InitCanvas ==
    /\ build \in {"debug", "release"}
    /\ pc = "start"
    /\ width = 0
    /\ height = 0
    /\ canvas = <<>>
    /\ call = NoCall
    /\ ret = Unit
    /\ MathIdle

NextCanvas ==
    \/ \E w \in Dims, h \in Dims : New(w, h)
    \/ Width
    \/ Height
    \/ \E x \in Coords, y \in Coords : PixelAt(x, y)
    \/ \E x \in Coords, y \in Coords, color \in Palette : WritePixel(x, y, color)
    \/ ToPpm

SpecCanvas == InitCanvas /\ [][NextCanvas]_vars

----------------------------------------------------------------------------
(* One pixel under every color: the channel conversion of to_ppm *)

\* The channel values given to Color::new: below 0, 0, inside (0, 1), 1,
\* above 1, an infinity and NaN.
ChannelSamples ==
    { Quarters(-1), Quarters(0), Quarters(2), Quarters(3), Quarters(4),
      Quarters(5), PInf, NaN }
SampleColors ==
    {Color(r, g, b) : r \in ChannelSamples, g \in ChannelSamples, b \in ChannelSamples}

NextChannels ==
    \/ New(1, 1)
    \/ \E color \in SampleColors : WritePixel(0, 0, color)
    \/ ToPpm

SpecChannels == InitCanvas /\ [][NextChannels]_vars

----------------------------------------------------------------------------
(* Reading the text to_ppm returns *)

\* The pieces of s between the occurrences of sep.
Split(s, sep) ==
    LET at == {i \in 1 .. Len(s) : s[i] = sep}
        nth(k) == CHOOSE i \in at : Cardinality({j \in at : j < i}) = k - 1
        from(k) == IF k = 1 THEN 1 ELSE nth(k - 1) + 1
        upto(k) == IF k = Cardinality(at) + 1 THEN Len(s) ELSE nth(k) - 1
    IN  [k \in 1 .. Cardinality(at) + 1 |-> SubSeq(s, from(k), upto(k))]

RECURSIVE Flatten(_)
Flatten(ss) == IF ss = <<>> THEN <<>> ELSE Head(ss) \o Flatten(Tail(ss))

IsNumber(tok) ==
    /\ tok # <<>>
    /\ \A i \in 1 .. Len(tok) :
          tok[i] \in {"0", "1", "2", "3", "4", "5", "6", "7", "8", "9"}

\* The value of a string of decimal digits.
RECURSIVE NumberOf(_)
NumberOf(tok) ==
    IF tok = <<>> THEN 0
    ELSE 10 * NumberOf(SubSeq(tok, 1, Len(tok) - 1))
         + (CHOOSE d \in 0 .. 9 : DigitChar(d) = tok[Len(tok)])

\* The lines of a text that ends each line with a newline.
LinesOf(s) == Split(s, "\n")
\* The body lines of a PPM text: all after the third, the piece after the
\* last newline left out.
BodyLines(s) == SubSeq(LinesOf(s), 4, Len(LinesOf(s)) - 1)
\* The integers of the body of a PPM text, in order.
BodyTokens(s) == Flatten([k \in 1 .. Len(BodyLines(s)) |-> Split(BodyLines(s)[k], " ")])

\* ceil(255 * n / 4) clamped into 0 .. 255, in exact integer arithmetic.
CeilScaled(n) ==
    LET up == -((-(255 * n)) \div 4)
    IN  IF up < 0 THEN 0 ELSE IF up > 255 THEN 255 ELSE up

----------------------------------------------------------------------------
(* Claims about the canvas *)

\* C1 (as stated): a write_pixel call never panics, and after it every
\* in-bounds (x, y) reads the color just written if the call's coordinates
\* were exactly (x, y) and reads what it read before the call otherwise; so
\* every in-bounds pixel holds the color of the most recent write to it.
C1_LastWriteWins ==
    [][call'.op = "write_pixel" =>
        /\ pc' # "panic"
        /\ \A x \in Coords, y \in Coords :
              (x < width /\ y < height) =>
                 PixelAtRet(x, y)' =
                    IF x = call'.x /\ y = call'.y
                    THEN Some(call'.color)
                    ELSE PixelAtRet(x, y)]_vars

\* C2 (as stated): pixel_at(x, y) never panics, returns a present value
\* exactly when x < width and y < height, and None otherwise.
C2_PixelAtTotal ==
    call.op = "pixel_at" =>
        /\ pc # "panic"
        /\ ret.tag \in {"Some", "None"}
        /\ ret.tag = "Some" <=> (call.x < width /\ call.y < height)

\* C3: a write_pixel call with x >= width or y >= height does not panic and
\* leaves every cell of the buffer, the width and the height as they were.
C3_OutOfBoundsWriteIsNoOp ==
    [][(call'.op = "write_pixel" /\ (call'.x >= width \/ call'.y >= height)) =>
        /\ pc' = pc
        /\ ret'.tag = "Unit"
        /\ canvas' = canvas
        /\ width' = width
        /\ height' = height]_vars

\* C3 witness: an out-of-bounds write was made on a canvas that holds a
\* written pixel, at an x beyond the width whose flat index x + y * width
\* is inside the buffer.
C3_Witness ==
    /\ pc = "live"
    /\ call.op = "write_pixel"
    /\ call.x >= width
    /\ call.y < height
    /\ call.x + call.y * width < Len(canvas)
    /\ call.color # BLACK
    /\ \E i \in 1 .. Len(canvas) : canvas[i] # BLACK

\* C4 (as stated): Canvas::new(w, h) never panics, the canvas has width w
\* and height h, and pixel_at reads black at every in-bounds (x, y).
C4_NewIsTotalAndBlack ==
    call.op = "new" =>
        /\ pc = "live"
        /\ width = call.x
        /\ height = call.y
        /\ \A x \in Coords, y \in Coords :
              (x < call.x /\ y < call.y) => PixelAtRet(x, y) = Some(BLACK)

\* C5 (as stated): the body of to_ppm holds exactly width * height triplets,
\* and triplet k encodes the color pixel_at(k mod width, k div width) returns.
C5_BodyIsRowMajor ==
    call.op = "to_ppm" =>
        LET toks == BodyTokens(ret.val)
        IN  /\ Len(toks) = 3 * (width * height)
            /\ \A k \in 0 .. width * height - 1 :
                  LET px == PixelAtRet(k % width, k \div width)
                  IN  /\ px.tag = "Some"
                      /\ toks[3 * k + 1] = Decimal(Channel(px.val.r))
                      /\ toks[3 * k + 2] = Decimal(Channel(px.val.g))
                      /\ toks[3 * k + 3] = Decimal(Channel(px.val.b))

\* C6: the text to_ppm returns is the lines "P3", "<width> <height>", "255",
\* then body lines of integers separated by single spaces, 15 integers (5
\* triplets) on every body line but the last and 3, 6, 9, 12 or 15 on the
\* last; every line ends with a newline and nothing follows the last one; a
\* canvas with no pixels gives the three header lines and nothing else.
C6_PpmLayout ==
    call.op = "to_ppm" =>
        LET lines == LinesOf(ret.val)
            n == Len(lines)
        IN  /\ n >= 4
            /\ lines[n] = <<>>
            /\ lines[1] = <<"P", "3">>
            /\ Split(lines[2], " ") = <<Decimal(width), Decimal(height)>>
            /\ lines[3] = <<"2", "5", "5">>
            /\ \A k \in 4 .. n - 1 :
                  LET toks == Split(lines[k], " ")
                  IN  /\ \A t \in 1 .. Len(toks) : IsNumber(toks[t])
                      /\ Len(toks) \in {3, 6, 9, 12, 15}
                      /\ k < n - 1 => Len(toks) = 15
            /\ Len(canvas) = 0 => n = 4
            /\ Len(canvas) > 0 => n > 4

\* C6 witness: to_ppm was called on a canvas of more than five pixels, so
\* the body has a full line and a shorter last line.
C6_Witness ==
    /\ call.op = "to_ppm"
    /\ Len(canvas) = 6
    /\ Len(BodyLines(ret.val)) = 2
    /\ Len(Split(BodyLines(ret.val)[2], " ")) = 3

\* C7: to_ppm writes each channel c of a pixel as ceil(c * 255) clamped into
\* 0 .. 255, each channel on its own: always an integer in 0 .. 255, 0 for
\* every c <= 0, 255 for every c >= 1 and 128 for 0.5; and write_pixel
\* stores the color it is given unchanged, whatever its channels.
C7_ChannelOf(tok, c) ==
    /\ IsNumber(tok)
    /\ NumberOf(tok) \in 0 .. 255
    /\ IsFin(c) => NumberOf(tok) = CeilScaled(c[2])
    /\ (IsFin(c) /\ c[2] <= 0) => NumberOf(tok) = 0
    /\ (IsFin(c) /\ c[2] >= 4) => NumberOf(tok) = 255
    /\ c = NInf => NumberOf(tok) = 0
    /\ c = PInf => NumberOf(tok) = 255
    /\ c = Quarters(2) => NumberOf(tok) = 128
C11_BufferMatchesDimensions ==
    [][pc' = "live" =>
        /\ Len(canvas') = width' * height'
        /\ call'.op = "new" => (width' = call'.x /\ height' = call'.y)
        /\ pc = "live" => (width' = width /\ height' = height)
        /\ \A x \in Coords, y \in Coords :
              (x < width' /\ y < height') =>
                 /\ ~IndexPanics(x, y)'
                 /\ \A x2 \in Coords, y2 \in Coords :
                       (x2 < width' /\ y2 < height' /\ <<x2, y2>> # <<x, y>>) =>
                          Index(x2, y2)' # Index(x, y)']_vars

----------------------------------------------------------------------------
(* Claims about points and vectors *)

AllFinite3(t) == IsFin(t.x) /\ IsFin(t.y) /\ IsFin(t.z)
ZeroVector == Vector3New(Whole(0), Whole(0), Whole(0))

\* What the operations ask of their operands: a finite multiplier, a
\* divisor that is neither zero nor NaN, a mag() above zero before norm.
OperandsAsRequired(o) ==
    /\ o.op = "mul" => IsFin(o.b)
    /\ o.op = "div" => (~IsNaN(o.b) /\ o.b # Whole(0))
    /\ o.op = "norm" => FLess(Whole(0), mag(o.a))

\* C8 (as stated): at all times every Point has w exactly 1 and every
\* Vector has w exactly 0.
C8_WExactAlways ==
    /\ pt.w = Whole(1)
    /\ vu.w = Whole(0)
    /\ vv.w = Whole(0)

\* C8 (amended): an operation whose operands are as required (a finite
\* multiplier, a divisor that is neither zero nor NaN, a vector of mag()
\* above zero for norm) and whose Points have w exactly 1 and Vectors w
\* exactly 0 yields w exactly 1 for a Point and w exactly 0 for a Vector.
C8_WExactWhenOperandsAsRequired ==
    [][(C8_WExactAlways /\ OperandsAsRequired(out')) => C8_WExactAlways']_vars

\* C8 witness: a Point minus a Point was normalised into a unit Vector.
C8_Witness ==
    /\ steps = 2
    /\ out.op = "norm"
    /\ FLess(Whole(0), mag(out.a))
    /\ out.a = Point3SubPoint3(pt, Point3New(Whole(0), Whole(0), Whole(0)))
    /\ vu = out.val
    /\ C8_WExactAlways

\* C9 (as stated): u.cross(v) == -(v.cross(u)) for all vectors u and v, and
\* v.cross(v) is the zero vector.
C9_CrossAntisymmetric ==
    out.op = "cross" =>
        /\ Tuple4Eq(out.val, Vector3Neg(cross(out.b, out.a)))
        /\ out.a = out.b => Tuple4Eq(out.val, ZeroVector)

\* C9 (amended): whenever every component of u.cross(v) is finite,
\* u.cross(v) == -(v.cross(u)), and v.cross(v) is then the zero vector.
C9_CrossAntisymmetricWhenFinite ==
    (out.op = "cross" /\ AllFinite3(out.val)) =>
        /\ Tuple4Eq(out.val, Vector3Neg(cross(out.b, out.a)))
        /\ out.a = out.b => Tuple4Eq(out.val, ZeroVector)

\* C9 witness: Vector(1, 2, 3).cross(Vector(2, 3, 4)) gave Vector(-1, 2, -1).
C9_Witness ==
    /\ out.op = "cross"
    /\ out.a = Vector3New(Whole(1), Whole(2), Whole(3))
    /\ out.b = Vector3New(Whole(2), Whole(3), Whole(4))
    /\ out.val = Vector3New(Whole(-1), Whole(2), Whole(-1))

\* C10 (as stated): for all coordinates a, b, c, Point(a, b, c) plus or minus
\* Vector(0, 0, 0) equals Point(a, b, c) and has w = 1.
C10_ZeroVectorIsIdentity ==
    ( /\ out.op \in {"point_add_vector", "point_sub_vector"}
      /\ out.a = Point3New(out.a.x, out.a.y, out.a.z)
      /\ out.b = ZeroVector ) =>
        /\ Tuple4Eq(out.val, out.a)
        /\ out.val.w = Whole(1)

\* C10 (amended): for all finite coordinates a, b, c, Point(a, b, c) plus or
\* minus Vector(0, 0, 0) equals Point(a, b, c) and has w = 1.
C10_ZeroVectorIsIdentityWhenFinite ==
    ( /\ out.op \in {"point_add_vector", "point_sub_vector"}
      /\ out.a = Point3New(out.a.x, out.a.y, out.a.z)
      /\ AllFinite3(out.a)
      /\ out.b = ZeroVector ) =>
        /\ Tuple4Eq(out.val, out.a)
        /\ out.val.w = Whole(1)

\* C10 witness: Vector(0, 0, 0) was subtracted from Point(1, 2, 3).
C10_Witness ==
    /\ out.op = "point_sub_vector"
    /\ out.a = Point3New(Whole(1), Whole(2), Whole(3))
    /\ out.b = ZeroVector
    /\ pt = out.a

\* x*x' + y*y' + z*z': the sum of dot without the product of the w's.
Dot3(a, b) == FAdd(FAdd(FMul(a.x, b.x), FMul(a.y, b.y)), FMul(a.z, b.z))

\* == on f64: the same value, and neither side NaN.
FEq(a, b) == ~IsNaN(a) /\ ~IsNaN(b) /\ a = b

\* The square m2 of the root m of d, all finite and in quarters, is as near
\* to d as the rounding of the root (half a quarter at most) and of the
\* product (half a quarter at most) leave it: |m2 - d| <= m/4 + 9/16.
WithinRounding(m2, m, d) == 16 * Abs(m2[2] - d[2]) <= 4 * m[2] + 9

\* C12 (as stated): for all Vectors u and v that the operations yield,
\* u.dot(v) equals u.x*v.x + u.y*v.y + u.z*v.z, and the square of v.mag()
\* equals v.dot(v), equals x^2 + y^2 + z^2 and is not negative.
C12_WContributesNothing ==
    \A u \in {vu, vv}, v \in {vu, vv} :
        /\ FEq(dot(u, v), Dot3(u, v))
        /\ FEq(FMul(mag(v), mag(v)), dot(v, v))
        /\ FEq(FMul(mag(v), mag(v)), Dot3(v, v))
        /\ ~FLess(FMul(mag(v), mag(v)), Whole(0))

\* C12 (amended): for all Vectors u and v whose w is exactly 0, u.dot(v) is
\* the f64 that u.x*v.x + u.y*v.y + u.z*v.z is (NaN where that is NaN),
\* v.mag() is the square root of v.dot(v) and of x^2 + y^2 + z^2, neither
\* v.mag() nor its square is negative, and where v.dot(v) and the square of
\* v.mag() are finite they differ by no more than the rounding of the square
\* root and of the product.
C12_WContributesNothingWhenWZero ==
    /\ \A u \in {vu, vv}, v \in {vu, vv} :
          (u.w = Whole(0) /\ v.w = Whole(0)) => dot(u, v) = Dot3(u, v)
    /\ \A v \in {vu, vv} :
          v.w = Whole(0) =>
             LET m == mag(v)
                 m2 == FMul(m, m)
                 d == dot(v, v)
             IN  /\ m = FSqrt(d)
                 /\ m = FSqrt(Dot3(v, v))
                 /\ ~FLess(m, Whole(0))
                 /\ ~FLess(m2, Whole(0))
                 /\ (IsFin(d) /\ IsFin(m2)) => WithinRounding(m2, m, d)

\* C12 witness: mag() of Vector(1, 2, 3) + Vector(2, 3, 4) = Vector(3, 5, 7)
\* was taken; its square is near 83 and is not 83.
C12_Witness ==
    /\ steps = 2
    /\ out.op = "mag"
    /\ out.a = vu
    /\ vu = Vector3New(Whole(3), Whole(5), Whole(7))
    /\ dot(vu, vu) = Whole(83)
    /\ out.val = Whole(9)
    /\ FMul(out.val, out.val) # dot(vu, vu)

====
